---- MODULE Spec2Model ----
(***************************************************************************)
(* State-machine model of the inter-agent messaging core of ESG_pilot:     *)
(*   - MessageBus   (backend/app/bus/message_bus.py)                       *)
(*   - BaseAgent    (backend/app/agents/base_agent.py)                     *)
(* Every asyncio coroutine is cut at its suspension points (await); the    *)
(* code between two suspension points is one atomic action.                *)
(***************************************************************************)
EXTENDS Integers, Sequences, FiniteSets, TLC

(***************************************************************************)
(* Bounds of the model and constants of the program                        *)
(***************************************************************************)
\* number of publish() calls explored
MaxPublish == 2
\* longest handler list registered under one agent id
MaxHandlers == 2
\* the clock advances at most MaxTicks times
MaxTicks == 2

\* number of calls of BaseAgent._handle_message explored
MaxDeliveries == 2
\* number of publish() calls explored where one key is published again
MaxRepublish == 3
\* number of automatically generated messages of one exchange that are published
MaxHops == 3

\* self._message_ttl, self._cleanup_interval
message_ttl == 300
cleanup_interval == 60
\* BaseAgent.max_retries
max_retries == 3

\* one step of the clock: longer than the cleanup interval, shorter than the TTL,
\* and two steps are longer than the TTL
TickStep == (2 * message_ttl) \div 3

Agents == {"A", "B"}
Handlers == {"h1", "h2"}
\* the (agent id, callback) pairs the components of the application register
Subscriptions == { <<"A", "h1">>, <<"A", "h2">> }

(***************************************************************************)
(* A2AMessage: the fields the bus reads.  Strings are sequences of         *)
(* characters so that the key is built as the f-string builds it.          *)
(***************************************************************************)
Msgs ==
    { [conversation_id |-> <<"c">>, action |-> <<"ping">>, message_id |-> <<"1">>,
       to_agent |-> "A", priority |-> "NORMAL"],
      [conversation_id |-> <<"c">>, action |-> <<"ping">>, message_id |-> <<"1">>,
       to_agent |-> "B", priority |-> "NORMAL"],
      [conversation_id |-> <<"c">>, action |-> <<"ping">>, message_id |-> <<"2">>,
       to_agent |-> "A", priority |-> "URGENT"] }

\* f"{message.conversation_id}:{message.action}:{message.message_id}"
generate_message_key(message) ==
    message.conversation_id \o <<":">> \o message.action \o <<":">> \o message.message_id

(***************************************************************************)
(* The agent "A" and the messages that pass between it and a client "B"    *)
(***************************************************************************)
\* self.agent_id
self_agent_id == "A"
\* the bound method self._handle_message, as registered on the bus
handle_message_cb == "A._handle_message"

\* the messages delivered to the agent: the fields the runtime reads
AgentMsgs ==
    { [conversation_id |-> <<"c">>, action |-> <<"ping">>, message_id |-> <<"1">>,
       to_agent |-> "A", from_agent |-> "B", message_type |-> "request"],
      [conversation_id |-> <<"c">>, action |-> <<"q">>, message_id |-> <<"2">>,
       to_agent |-> "A", from_agent |-> "B", message_type |-> "request"] }

\* the requests a client publishes to the agent over the bus: payload {} and a
\* payload with one entry
RequestMsgs ==
    { [conversation_id |-> <<"c">>, action |-> <<"ping">>, message_id |-> <<"1">>,
       to_agent |-> "A", from_agent |-> "B", message_type |-> "request",
       payload |-> << >>],
      [conversation_id |-> <<"c">>, action |-> <<"ping">>, message_id |-> <<"2">>,
       to_agent |-> "A", from_agent |-> "B", message_type |-> "request",
       payload |-> << "x" >>] }

\* _send_response: the message built at lines 328-340
response_message(original) ==
    [message_id |-> <<"resp_">> \o original.message_id,
     conversation_id |-> original.conversation_id,
     from_agent |-> self_agent_id,
     to_agent |-> original.from_agent,
     message_type |-> original.message_type,
     action |-> original.action \o <<"_response">>,
     error_code |-> "n/a",
     recoverable |-> "n/a"]

\* faulty variant: the error message goes to the receiver of the failing message
error_message_to_receiver(original, error) ==
    [message_id |-> <<"error_">> \o original.message_id,
     conversation_id |-> original.conversation_id,
     from_agent |-> self_agent_id,
     to_agent |-> original.to_agent,
     message_type |-> original.message_type,
     action |-> <<"error">>,
     error_code |-> error.error_code,
     recoverable |-> error.recoverable]

\* _send_error_response: the message built at lines 357-369
error_message(original, error) ==
    [message_id |-> <<"error_">> \o original.message_id,
     conversation_id |-> original.conversation_id,
     from_agent |-> self_agent_id,
     to_agent |-> original.from_agent,
     message_type |-> original.message_type,
     action |-> <<"error">>,
     error_code |-> error.error_code,
     recoverable |-> error.recoverable]

\* a second BaseAgent instance, the sender of the request
peer_agent_id == "B"
\* its bound method self._handle_message, as registered on the bus
peer_handle_message_cb == "B._handle_message"
\* the actions the second runtime has a handler for
peer_message_handlers == {}

\* _send_response as the second runtime runs it (lines 328-340, self.agent_id = "B")
peer_response_message(original) ==
    [message_id |-> <<"resp_">> \o original.message_id,
     conversation_id |-> original.conversation_id,
     from_agent |-> peer_agent_id,
     to_agent |-> original.from_agent,
     message_type |-> original.message_type,
     action |-> original.action \o <<"_response">>,
     error_code |-> "n/a",
     recoverable |-> "n/a"]

\* the request that starts the exchange
ExchangeRequest ==
    [conversation_id |-> <<"c">>, action |-> <<"ping">>, message_id |-> <<"2">>,
     to_agent |-> "A", from_agent |-> "B", message_type |-> "request",
     payload |-> << "x" >>]

\* the response the receiver of `message` builds for it
reply_to(message) ==
    IF message.to_agent = self_agent_id THEN response_message(message)
    ELSE peer_response_message(message)

\* the n-th message of the exchange when the request is answered by a response
RECURSIVE Exchange(_)
Exchange(n) == IF n = 0 THEN ExchangeRequest ELSE reply_to(Exchange(n - 1))

\* the n-th message of the exchange when the request is answered by an error message
RECURSIVE ExchangeAfterError(_)
ExchangeAfterError(n) ==
    IF n = 1
    THEN error_message(ExchangeRequest,
                       [error_code |-> "AGENT_PROC_ERROR", recoverable |-> FALSE])
    ELSE reply_to(ExchangeAfterError(n - 1))

\* the dedup keys of the messages published in the model
Keys ==
    { generate_message_key(m) : m \in Msgs \cup { response_message(r) : r \in RequestMsgs } }
        \cup { generate_message_key(Exchange(n)) : n \in 0..(MaxHops + 1) }
        \cup { generate_message_key(ExchangeAfterError(n)) : n \in 1..(MaxHops + 1) }

VARIABLES
    subscribers,          \* self._subscribers: dict agent id -> list of handlers
    queue,                \* self._queue (None and empty are both <<>>)
    dispatch_task,        \* self._dispatch_task: "none" | "running" | "done"
    dpc,                  \* position of _dispatch: "init" | "get" | "gather"
    stop_pc,              \* position of stop(): "idle" | "await" (task cancelled, awaited) | "resume"
    processed_messages,   \* self._processed_messages
    processing_messages,  \* self._processing_messages
    message_timestamps,   \* self._message_timestamps: dict key -> time
    lock_owner,           \* self._processing_locks[agent]: index of the task holding it, 0 when free
    lock_waiters,         \* self._processing_locks[agent]._waiters, FIFO
    stats,                \* self._stats
    now,                  \* time.time()
    last_cleanup,         \* local last_cleanup of _dispatch
    cur_msg,              \* local message of _dispatch during the fan-out
    tasks,                \* the tasks of the current fan-out: [handler, st]
    publish_ret,          \* value returned by the last publish(): "none" | "True" | "False"
    invocations,          \* history: handler invocations per key since construction
    handled,              \* history: handler invocations per key since its dedup record was last reset
    recorded_at,          \* history: time the key was last recorded in the dedup state, -1 if never
    stopped_since,        \* history: keys whose dedup record stop() cleared since it was recorded
    \* ---- one BaseAgent instance, self_agent_id = "A" ----
    running,              \* self.running
    message_handlers,     \* self.message_handlers: the actions with a registered handler
    processing_requests,  \* self._processing_requests
    error_stats,          \* self.error_stats
    performance_stats,    \* self.performance_stats (counters)
    delivery,             \* the calls of _handle_message in progress or last ended, per slot
    outbox,               \* messages the agent handed to message_bus.publish, in order
    n_deliveries,         \* calls of _handle_message so far (bounds the exploration)
    \* ---- a second BaseAgent instance, peer_agent_id = "B" ----
    peer                  \* its self.running, and its call of _handle_message in progress

bus_vars == << subscribers, queue, dispatch_task, dpc, stop_pc,
             processed_messages, processing_messages, message_timestamps,
             lock_owner, lock_waiters, stats, now, last_cleanup, cur_msg,
             tasks, publish_ret, invocations, handled, recorded_at,
             stopped_since >>

agent_vars == << running, message_handlers, processing_requests, error_stats,
               performance_stats, delivery, outbox, n_deliveries, peer >>

vars == << bus_vars, agent_vars >>

NoMsg == [conversation_id |-> <<>>, action |-> <<>>, message_id |-> <<>>, to_agent |-> "none",
          priority |-> "none"]

(***************************************************************************)
(* MessageBus.__init__                                                     *)
(***************************************************************************)
BusInit ==
    /\ subscribers = [a \in {} |-> << >>]
    /\ queue = << >>
    /\ dispatch_task = "none"
    /\ dpc = "init"
    /\ stop_pc = "idle"
    /\ processed_messages = {}
    /\ processing_messages = {}
    /\ message_timestamps = [k \in {} |-> 0]
    /\ lock_owner = [a \in Agents |-> 0]
    /\ lock_waiters = [a \in Agents |-> << >>]
    /\ stats = [total_messages |-> 0, processed_messages |-> 0,
                duplicate_messages |-> 0, failed_messages |-> 0]
    /\ now = 0
    /\ last_cleanup = 0
    /\ cur_msg = NoMsg
    /\ tasks = << >>
    /\ publish_ret = "none"
    /\ invocations = [k \in Keys |-> 0]
    /\ handled = [k \in Keys |-> 0]
    /\ recorded_at = [k \in Keys |-> -1]
    /\ stopped_since = {}

(***************************************************************************)
(* Helpers on dicts (functions with a varying domain) and lists            *)
(***************************************************************************)
DictSet(d, k, v) == [x \in (DOMAIN d) \cup {k} |-> IF x = k THEN v ELSE d[x]]
DictDel(d, ks) == [x \in (DOMAIN d) \ ks |-> d[x]]

\* list.remove(x): removes the first occurrence
RECURSIVE ListRemove(_, _)
ListRemove(s, x) ==
    IF s = << >> THEN << >>
    ELSE IF Head(s) = x THEN Tail(s)
    ELSE << Head(s) >> \o ListRemove(Tail(s), x)

ListHas(s, x) == \E i \in 1..Len(s) : s[i] = x

(***************************************************************************)
(* Dedup bookkeeping                                                       *)
(***************************************************************************)
\* faulty variant: the processing set is not consulted
is_duplicate_message_mut(message) ==
    generate_message_key(message) \in processed_messages

is_duplicate_message(message) ==
    \/ generate_message_key(message) \in processed_messages
    \/ generate_message_key(message) \in processing_messages

\* faulty variant: the cleanup interval is taken for the TTL
expired_keys_mut(t) ==
    { k \in DOMAIN message_timestamps : t - message_timestamps[k] > cleanup_interval }

\* the keys _cleanup_old_messages() evicts at time t
expired_keys(t) ==
    { k \in DOMAIN message_timestamps : t - message_timestamps[k] > message_ttl }

\* _cleanup_old_messages()
cleanup_old_messages ==
    /\ processed_messages' = processed_messages \ expired_keys(now)
    /\ processing_messages' = processing_messages \ expired_keys(now)
    /\ message_timestamps' = DictDel(message_timestamps, expired_keys(now))
    /\ handled' = [k \in Keys |-> IF k \in expired_keys(now) THEN 0 ELSE handled[k]]

\* top of the while-loop of _dispatch (lines 179-183), reached by every `continue`:
\* the cleanup runs when the interval has elapsed, then queue.get() is awaited
loop_top ==
    IF now - last_cleanup > cleanup_interval
    THEN /\ cleanup_old_messages
         /\ last_cleanup' = now
    ELSE UNCHANGED << processed_messages, processing_messages, message_timestamps,
                      handled, last_cleanup >>

\* faulty variant: the dispatch task never sees the cancellation
cancel_not_observed == FALSE

\* self._dispatch_task.cancel() has been called and not yet observed
cancel_requested == stop_pc = "await"

\* get_stats()
get_stats ==
    [total_messages |-> stats.total_messages,
     processed_messages |-> stats.processed_messages,
     duplicate_messages |-> stats.duplicate_messages,
     failed_messages |-> stats.failed_messages,
     active_subscribers |-> Cardinality(DOMAIN subscribers),
     processing_messages |-> Cardinality(processing_messages),
     processed_messages_cache |-> Cardinality(processed_messages),
     queue_size |-> Len(queue)]

(***************************************************************************)
(* subscribe / unsubscribe (both hold _dispatch_lock, which nothing else   *)
(* takes: each is one atomic step).  A component registers a pair once.    *)
(***************************************************************************)
subscribe(agent_id, handler) ==
    /\ agent_id \in DOMAIN subscribers =>
           /\ Len(subscribers[agent_id]) < MaxHandlers
           /\ ~ListHas(subscribers[agent_id], handler)
    /\ subscribers' = DictSet(subscribers, agent_id,
                              (IF agent_id \in DOMAIN subscribers
                               THEN subscribers[agent_id] ELSE << >>) \o << handler >>)
    /\ UNCHANGED << queue, dispatch_task, dpc, stop_pc, processed_messages,
                    processing_messages, message_timestamps, lock_owner,
                    lock_waiters, stats, now, last_cleanup, cur_msg, tasks,
                    publish_ret, invocations, handled, recorded_at,
                    stopped_since, agent_vars >>

unsubscribe(agent_id, handler) ==
    /\ IF agent_id \in DOMAIN subscribers /\ ListHas(subscribers[agent_id], handler)
       THEN subscribers' = [subscribers EXCEPT ![agent_id] = ListRemove(@, handler)]
       ELSE UNCHANGED subscribers
    /\ UNCHANGED << queue, dispatch_task, dpc, stop_pc, processed_messages,
                    processing_messages, message_timestamps, lock_owner,
                    lock_waiters, stats, now, last_cleanup, cur_msg, tasks,
                    publish_ret, invocations, handled, recorded_at,
                    stopped_since, agent_vars >>

(***************************************************************************)
(* publish: the queue is unbounded, put() neither suspends nor fails       *)
(***************************************************************************)
publish_body(message) ==
    /\ IF is_duplicate_message(message)
       THEN /\ stats' = [stats EXCEPT !.total_messages = @ + 1,
                                      !.duplicate_messages = @ + 1]
            /\ publish_ret' = "False"
            /\ UNCHANGED << processing_messages, message_timestamps, queue,
                            recorded_at, stopped_since >>
       ELSE /\ stats' = [stats EXCEPT !.total_messages = @ + 1]
            /\ processing_messages' = processing_messages \cup {generate_message_key(message)}
            /\ message_timestamps' =
                   DictSet(message_timestamps, generate_message_key(message), now)
            /\ queue' = Append(queue, message)
            /\ publish_ret' = "True"
            /\ recorded_at' = [recorded_at EXCEPT ![generate_message_key(message)] = now]
            /\ stopped_since' = stopped_since \ {generate_message_key(message)}
    /\ UNCHANGED << subscribers, dispatch_task, dpc, stop_pc,
                    processed_messages, lock_owner, lock_waiters, now,
                    last_cleanup, cur_msg, tasks, invocations, handled,
                    agent_vars >>

\* a call of publish(message), among the MaxPublish calls explored
publish(message) ==
    /\ stats.total_messages < MaxPublish
    /\ publish_body(message)

(***************************************************************************)
(* start / stop                                                            *)
(***************************************************************************)
start ==
    /\ dispatch_task \in {"none", "done"}
    /\ dispatch_task' = "running"
    /\ dpc' = "init"
    /\ UNCHANGED << subscribers, queue, stop_pc, processed_messages,
                    processing_messages, message_timestamps, lock_owner,
                    lock_waiters, stats, now, last_cleanup, cur_msg, tasks,
                    publish_ret, invocations, handled, recorded_at,
                    stopped_since, agent_vars >>

\* faulty variant: stop() leaves the processing set as it is
stop_clear_keeps_processing ==
    /\ queue' = << >>
    /\ processed_messages' = {}
    /\ UNCHANGED processing_messages
    /\ message_timestamps' = [k \in {} |-> 0]
    /\ handled' = [k \in Keys |-> 0]
    /\ stopped_since' = stopped_since \cup DOMAIN message_timestamps

\* lines 249-253 of stop(): the full reset of the in-memory state
stop_clear ==
    /\ queue' = << >>
    /\ processed_messages' = {}
    /\ processing_messages' = {}
    /\ message_timestamps' = [k \in {} |-> 0]
    /\ handled' = [k \in Keys |-> 0]
    /\ stopped_since' = stopped_since \cup DOMAIN message_timestamps

\* stop() up to its first suspension: a live dispatch task is cancelled and awaited,
\* otherwise the state is cleared at once
stop_call ==
    /\ stop_pc = "idle"
    /\ IF dispatch_task = "running"
       THEN /\ stop_pc' = "await"
            /\ UNCHANGED << queue, processed_messages, processing_messages,
                            message_timestamps, handled, stopped_since >>
       ELSE /\ stop_clear
            /\ UNCHANGED stop_pc
    /\ UNCHANGED << subscribers, dispatch_task, dpc, lock_owner,
                    lock_waiters, stats, now, last_cleanup, cur_msg, tasks,
                    publish_ret, invocations, recorded_at, agent_vars >>

\* stop() resumes once the cancelled dispatch task has finished
stop_return ==
    /\ stop_pc = "resume"
    /\ stop_pc' = "idle"
    /\ stop_clear
    /\ UNCHANGED << subscribers, dispatch_task, dpc, lock_owner,
                    lock_waiters, stats, now, last_cleanup, cur_msg, tasks,
                    publish_ret, invocations, recorded_at, agent_vars >>

(***************************************************************************)
(* _dispatch                                                               *)
(***************************************************************************)
\* first step of the task: queue = self._get_queue(); last_cleanup = time.time().
\* A task created while stop() is about to resume runs after that resumption
\* (the event loop runs its ready callbacks in FIFO order).
dispatch_init ==
    /\ dispatch_task = "running" /\ dpc = "init"
    /\ stop_pc = "idle"
    /\ last_cleanup' = now
    /\ dpc' = "get"
    /\ UNCHANGED << subscribers, queue, dispatch_task, stop_pc,
                    processed_messages, processing_messages,
                    message_timestamps, lock_owner, lock_waiters, stats,
                    now, cur_msg, tasks, publish_ret, invocations, handled,
                    recorded_at, stopped_since, agent_vars >>

\* wait_for(queue.get(), timeout=30.0) raises TimeoutError: continue.  A step of
\* the clock is longer than the timeout, and an iteration with the clock unchanged
\* changes nothing.
dispatch_timeout ==
    /\ dispatch_task = "running" /\ dpc = "get" /\ ~cancel_requested
    /\ queue = << >>
    /\ loop_top
    /\ UNCHANGED << subscribers, queue, dispatch_task, dpc, stop_pc,
                    lock_owner, lock_waiters, stats, now, cur_msg, tasks,
                    publish_ret, invocations, recorded_at, stopped_since,
                    agent_vars >>

\* line 194: the destination has no entry in the registry
no_subscribers(message) == message.to_agent \notin DOMAIN subscribers

\* faulty variant: the loop does not look at the processed set
already_processed_never(message) == FALSE

\* line 200: the key is already in the processed set
already_processed(message) == generate_message_key(message) \in processed_messages

\* lines 206-207: the handlers the message is fanned out to
handlers_of(message) == subscribers[message.to_agent]

\* the message at the head of the queue is not handed to any handler
dropped(message) ==
    \/ no_subscribers(message)
    \/ already_processed(message)
    \/ ~no_subscribers(message) /\ handlers_of(message) = << >>

\* faulty variant: an undeliverable message is put back on the queue
dispatch_drop_mut ==
    /\ dispatch_task = "running" /\ dpc = "get" /\ ~cancel_requested
    /\ queue # << >>
    /\ dropped(Head(queue))
    /\ queue' = Append(Tail(queue), Head(queue))
    /\ loop_top
    /\ UNCHANGED << subscribers, dispatch_task, dpc, stop_pc, lock_owner,
                    lock_waiters, stats, now, cur_msg, tasks, publish_ret,
                    invocations, recorded_at, stopped_since, agent_vars >>

\* faulty variant: a dropped message is marked processed
dispatch_drop_marks_processed ==
    /\ dispatch_task = "running" /\ dpc = "get" /\ ~cancel_requested
    /\ queue # << >>
    /\ dropped(Head(queue))
    /\ queue' = Tail(queue)
    /\ processing_messages' = processing_messages \ {generate_message_key(Head(queue))}
    /\ processed_messages' = processed_messages \cup {generate_message_key(Head(queue))}
    /\ UNCHANGED << subscribers, dispatch_task, dpc, stop_pc,
                    message_timestamps, lock_owner, lock_waiters, stats,
                    now, last_cleanup, cur_msg, tasks, publish_ret,
                    invocations, handled, recorded_at, stopped_since,
                    agent_vars >>

\* a message is dequeued and dropped: task_done(), next iteration
dispatch_drop ==
    /\ dispatch_task = "running" /\ dpc = "get" /\ ~cancel_requested
    /\ queue # << >>
    /\ dropped(Head(queue))
    /\ queue' = Tail(queue)
    /\ loop_top
    /\ UNCHANGED << subscribers, dispatch_task, dpc, stop_pc, lock_owner,
                    lock_waiters, stats, now, cur_msg, tasks, publish_ret,
                    invocations, recorded_at, stopped_since, agent_vars >>

\* faulty variant: an URGENT message anywhere in the queue is taken before the head
dispatch_fan_out_by_priority ==
    /\ dispatch_task = "running" /\ dpc = "get" /\ ~cancel_requested
    /\ queue # << >>
    /\ LET urgent == { j \in 1..Len(queue) : queue[j].priority = "URGENT" }
           pick == IF urgent = {} THEN 1
                   ELSE CHOOSE j \in urgent : \A k \in urgent : j <= k
       IN /\ ~dropped(queue[pick])
          /\ queue' = SubSeq(queue, 1, pick - 1) \o SubSeq(queue, pick + 1, Len(queue))
          /\ cur_msg' = queue[pick]
          /\ tasks' = [i \in 1..Len(handlers_of(queue[pick])) |->
                          [handler |-> handlers_of(queue[pick])[i], st |-> "created"]]
    /\ dpc' = "gather"
    /\ UNCHANGED << subscribers, dispatch_task, stop_pc,
                    processed_messages, processing_messages,
                    message_timestamps, lock_owner, lock_waiters, stats,
                    now, last_cleanup, publish_ret, invocations, handled,
                    recorded_at, stopped_since, agent_vars >>

\* a message is dequeued and one task per handler is created; gather is awaited
dispatch_fan_out ==
    /\ dispatch_task = "running" /\ dpc = "get" /\ ~cancel_requested
    /\ queue # << >>
    /\ ~dropped(Head(queue))
    /\ queue' = Tail(queue)
    /\ cur_msg' = Head(queue)
    /\ tasks' = [i \in 1..Len(handlers_of(Head(queue))) |->
                    [handler |-> handlers_of(Head(queue))[i], st |-> "created"]]
    /\ dpc' = "gather"
    /\ UNCHANGED << subscribers, dispatch_task, stop_pc,
                    processed_messages, processing_messages,
                    message_timestamps, lock_owner, lock_waiters, stats,
                    now, last_cleanup, publish_ret, invocations, handled,
                    recorded_at, stopped_since, agent_vars >>

(***************************************************************************)
(* _handle_message_safely, one task per handler                            *)
(***************************************************************************)
TaskIds == 1..Len(tasks)
finished(i) == tasks[i].st \in {"returned", "raised", "skipped"}

\* faulty variant: the per-agent lock is not honoured
lock_is_free_mut(agent_id) == TRUE

\* asyncio.Lock.acquire() takes the lock at once only when it is free and nobody waits
lock_is_free(agent_id) == lock_owner[agent_id] = 0 /\ lock_waiters[agent_id] = << >>

\* faulty variant: no re-check under the lock
recheck_processed_mut(key) == FALSE

\* line 143: the re-check of the processed set under the lock
recheck_processed(key) == key \in processed_messages

\* the body under the lock up to `await handler(message)`, for task i
enter_locked(i) ==
    IF recheck_processed(generate_message_key(cur_msg))
    THEN /\ tasks' = [tasks EXCEPT ![i].st = "skipped"]
         /\ lock_owner' = [lock_owner EXCEPT ![cur_msg.to_agent] = 0]
         /\ UNCHANGED << invocations, handled >>
    ELSE /\ tasks' = [tasks EXCEPT ![i].st = "in_handler"]
         /\ lock_owner' = [lock_owner EXCEPT ![cur_msg.to_agent] = i]
         /\ invocations' = [invocations EXCEPT ![generate_message_key(cur_msg)] = @ + 1]
         /\ handled' = [handled EXCEPT ![generate_message_key(cur_msg)] = @ + 1]

\* first step of a task; the tasks of a fan-out start in creation order
task_start(i) ==
    /\ dispatch_task = "running" /\ dpc = "gather" /\ ~cancel_requested
    /\ tasks[i].st = "created"
    /\ \A j \in 1..(i-1) : tasks[j].st # "created"
    /\ IF lock_is_free(cur_msg.to_agent)
       THEN /\ enter_locked(i)
            /\ UNCHANGED lock_waiters
       ELSE /\ tasks' = [tasks EXCEPT ![i].st = "wait_lock"]
            /\ lock_waiters' = [lock_waiters EXCEPT ![cur_msg.to_agent] = Append(@, i)]
            /\ UNCHANGED << lock_owner, invocations, handled >>
    /\ UNCHANGED << subscribers, queue, dispatch_task, dpc, stop_pc,
                    processed_messages, processing_messages,
                    message_timestamps, stats, now, last_cleanup, cur_msg,
                    publish_ret, recorded_at, stopped_since, agent_vars >>

\* the first waiter, woken by release(), takes the lock
task_acquire(i) ==
    /\ dispatch_task = "running" /\ dpc = "gather" /\ ~cancel_requested
    /\ tasks[i].st = "wait_lock"
    /\ lock_owner[cur_msg.to_agent] = 0
    /\ Head(lock_waiters[cur_msg.to_agent]) = i
    /\ lock_waiters' = [lock_waiters EXCEPT ![cur_msg.to_agent] = Tail(@)]
    /\ enter_locked(i)
    /\ UNCHANGED << subscribers, queue, dispatch_task, dpc, stop_pc,
                    processed_messages, processing_messages,
                    message_timestamps, stats, now, last_cleanup, cur_msg,
                    publish_ret, recorded_at, stopped_since, agent_vars >>

\* faulty variant: the key is added to the processed set and left in the processing set
mark_message_processed_no_discard(key) ==
    /\ UNCHANGED processing_messages
    /\ processed_messages' = processed_messages \cup {key}
    /\ message_timestamps' = DictSet(message_timestamps, key, now)
    /\ recorded_at' = [recorded_at EXCEPT ![key] = now]
    /\ stopped_since' = stopped_since \ {key}

\* _mark_message_processed(message)
mark_message_processed(key) ==
    /\ processing_messages' = processing_messages \ {key}
    /\ processed_messages' = processed_messages \cup {key}
    /\ message_timestamps' = DictSet(message_timestamps, key, now)
    /\ recorded_at' = [recorded_at EXCEPT ![key] = now]
    /\ stopped_since' = stopped_since \ {key}

\* the handler returns: lines 151-152, then the lock is released
handler_return(i) ==
    /\ dispatch_task = "running" /\ dpc = "gather" /\ ~cancel_requested
    /\ tasks[i].st = "in_handler"
    /\ mark_message_processed(generate_message_key(cur_msg))
    /\ stats' = [stats EXCEPT !.processed_messages = @ + 1]
    /\ tasks' = [tasks EXCEPT ![i].st = "returned"]
    /\ lock_owner' = [lock_owner EXCEPT ![cur_msg.to_agent] = 0]
    /\ UNCHANGED << subscribers, queue, dispatch_task, dpc, stop_pc,
                    lock_waiters, now, last_cleanup, cur_msg, publish_ret,
                    invocations, handled, agent_vars >>

\* faulty variant: a failed message is left unmarked, so that it can be delivered again
handler_raise_mut(i) ==
    /\ dispatch_task = "running" /\ dpc = "gather" /\ ~cancel_requested
    /\ tasks[i].st = "in_handler"
    /\ stats' = [stats EXCEPT !.failed_messages = @ + 1]
    /\ processing_messages' = processing_messages \ {generate_message_key(cur_msg)}
    /\ tasks' = [tasks EXCEPT ![i].st = "raised"]
    /\ lock_owner' = [lock_owner EXCEPT ![cur_msg.to_agent] = 0]
    /\ UNCHANGED << subscribers, queue, dispatch_task, dpc, stop_pc,
                    processed_messages, message_timestamps, lock_waiters,
                    now, last_cleanup, cur_msg, publish_ret, invocations,
                    handled, recorded_at, stopped_since, agent_vars >>

\* faulty variant: the exception of a handler escapes gather and ends the dispatch task
handler_raise_kills_loop(i) ==
    /\ dispatch_task = "running" /\ dpc = "gather" /\ ~cancel_requested
    /\ tasks[i].st = "in_handler"
    /\ stats' = [stats EXCEPT !.failed_messages = @ + 1]
    /\ mark_message_processed(generate_message_key(cur_msg))
    /\ tasks' = [tasks EXCEPT ![i].st = "raised"]
    /\ lock_owner' = [lock_owner EXCEPT ![cur_msg.to_agent] = 0]
    /\ dispatch_task' = "done"
    /\ UNCHANGED << subscribers, queue, dpc, stop_pc, lock_waiters, now,
                    last_cleanup, cur_msg, publish_ret, invocations,
                    handled, agent_vars >>

\* faulty variant: a failed message is counted as failed and as processed
handler_raise_counts_both(i) ==
    /\ dispatch_task = "running" /\ dpc = "gather" /\ ~cancel_requested
    /\ tasks[i].st = "in_handler"
    /\ stats' = [stats EXCEPT !.failed_messages = @ + 1, !.processed_messages = @ + 1]
    /\ mark_message_processed(generate_message_key(cur_msg))
    /\ tasks' = [tasks EXCEPT ![i].st = "raised"]
    /\ lock_owner' = [lock_owner EXCEPT ![cur_msg.to_agent] = 0]
    /\ UNCHANGED << subscribers, queue, dispatch_task, dpc, stop_pc,
                    lock_waiters, now, last_cleanup, cur_msg, publish_ret,
                    invocations, handled, agent_vars >>

\* the handler raises: the lock is released, then lines 159-167
handler_raise(i) ==
    /\ dispatch_task = "running" /\ dpc = "gather" /\ ~cancel_requested
    /\ tasks[i].st = "in_handler"
    /\ stats' = [stats EXCEPT !.failed_messages = @ + 1]
    /\ mark_message_processed(generate_message_key(cur_msg))
    /\ tasks' = [tasks EXCEPT ![i].st = "raised"]
    /\ lock_owner' = [lock_owner EXCEPT ![cur_msg.to_agent] = 0]
    /\ UNCHANGED << subscribers, queue, dispatch_task, dpc, stop_pc,
                    lock_waiters, now, last_cleanup, cur_msg, publish_ret,
                    invocations, handled, agent_vars >>

\* gather(*tasks, return_exceptions=True) returns: task_done(), next iteration
gather_done ==
    /\ dispatch_task = "running" /\ dpc = "gather" /\ ~cancel_requested
    /\ \A i \in TaskIds : finished(i)
    /\ loop_top
    /\ dpc' = "get"
    /\ cur_msg' = NoMsg
    /\ tasks' = << >>
    /\ UNCHANGED << subscribers, queue, dispatch_task, stop_pc, lock_owner,
                    lock_waiters, stats, now, publish_ret, invocations,
                    recorded_at, stopped_since, agent_vars >>

\* the cancelled dispatch task observes CancelledError (line 222): gather cancels
\* every unfinished task of the fan-out (lines 156-158: no dedup mark), the locks
\* are released, the loop breaks
dispatch_cancelled ==
    /\ dispatch_task = "running" /\ cancel_requested
    /\ dispatch_task' = "done"
    /\ stop_pc' = "resume"
    /\ cur_msg' = NoMsg
    /\ tasks' = << >>
    /\ lock_owner' = [a \in Agents |-> 0]
    /\ lock_waiters' = [a \in Agents |-> << >>]
    /\ UNCHANGED << subscribers, queue, dpc, processed_messages,
                    processing_messages, message_timestamps, stats, now,
                    last_cleanup, publish_ret, invocations, handled,
                    recorded_at, stopped_since, agent_vars >>

\* the clock
Tick ==
    /\ now < MaxTicks * TickStep
    /\ now' = now + TickStep
    /\ UNCHANGED << subscribers, queue, dispatch_task, dpc, stop_pc,
                    processed_messages, processing_messages,
                    message_timestamps, lock_owner, lock_waiters, stats,
                    last_cleanup, cur_msg, tasks, publish_ret, invocations,
                    handled, recorded_at, stopped_since, agent_vars >>

(***************************************************************************)
(* BaseAgent (self_agent_id = "A"); the bus calls its _handle_message            *)
(***************************************************************************)
\* the actions a subclass registers a handler for
HandledActions == { <<"ping">> }

\* what a handler can raise: AgentProcessingError (recoverable or not),
\* AgentCommunicationError, or an exception that is no AgentError
Raises ==
    { [agent_error |-> TRUE, recoverable |-> TRUE, error_code |-> "AGENT_PROC_ERROR"],
      [agent_error |-> TRUE, recoverable |-> FALSE, error_code |-> "AGENT_PROC_ERROR"],
      [agent_error |-> TRUE, recoverable |-> TRUE, error_code |-> "AGENT_COMM_ERROR"],
      [agent_error |-> FALSE, recoverable |-> FALSE, error_code |-> "none"] }
NoError == [agent_error |-> FALSE, recoverable |-> FALSE, error_code |-> "ok"]
ErrorCodes == { "AGENT_ERROR", "AGENT_INIT_ERROR", "AGENT_COMM_ERROR", "AGENT_PROC_ERROR" }

Slots == {1, 2}
IdleDelivery ==
    [pc |-> "idle", message |-> NoMsg, start_time |-> 0, retry_count |-> 0,
     calls |-> 0, error |-> NoError, result |-> "none"]

\* BaseAgent.__init__
AgentInit ==
    /\ running = FALSE
    /\ message_handlers = {}
    /\ processing_requests = {}
    /\ error_stats = [total_errors |-> 0, recoverable_errors |-> 0, critical_errors |-> 0,
                      last_error |-> "None", error_types |-> [c \in {} |-> 0]]
    /\ performance_stats = [messages_processed |-> 0, messages_failed |-> 0]
    /\ delivery = [d \in Slots |-> IdleDelivery]
    /\ outbox = << >>
    /\ n_deliveries = 0

\* register_handler(action, handler)
register_handler(action) ==
    /\ message_handlers' = message_handlers \cup {action}
    /\ UNCHANGED << bus_vars, running, processing_requests, error_stats,
                    performance_stats, delivery, outbox, n_deliveries, peer >>

\* BaseAgent.start(): subscribes the callback (again at every call), running = True
agent_start ==
    /\ self_agent_id \in DOMAIN subscribers => Len(subscribers[self_agent_id]) < MaxHandlers
    /\ subscribers' = DictSet(subscribers, self_agent_id,
                              (IF self_agent_id \in DOMAIN subscribers
                               THEN subscribers[self_agent_id] ELSE << >>) \o << handle_message_cb >>)
    /\ running' = TRUE
    /\ UNCHANGED << queue, dispatch_task, dpc, stop_pc, processed_messages,
                    processing_messages, message_timestamps, lock_owner,
                    lock_waiters, stats, now, last_cleanup, cur_msg, tasks,
                    publish_ret, invocations, handled, recorded_at,
                    stopped_since, message_handlers, processing_requests,
                    error_stats, performance_stats, delivery, outbox,
                    n_deliveries, peer >>

\* BaseAgent.stop(): unsubscribes the callback once when running, running = False
agent_stop ==
    /\ IF running /\ self_agent_id \in DOMAIN subscribers
                  /\ ListHas(subscribers[self_agent_id], handle_message_cb)
       THEN subscribers' = [subscribers EXCEPT ![self_agent_id] = ListRemove(@, handle_message_cb)]
       ELSE UNCHANGED subscribers
    /\ running' = FALSE
    /\ UNCHANGED << queue, dispatch_task, dpc, stop_pc, processed_messages,
                    processing_messages, message_timestamps, lock_owner,
                    lock_waiters, stats, now, last_cleanup, cur_msg, tasks,
                    publish_ret, invocations, handled, recorded_at,
                    stopped_since, message_handlers, processing_requests,
                    error_stats, performance_stats, delivery, outbox,
                    n_deliveries, peer >>

\* request_id = f"{message.message_id}_{start_time.timestamp()}"
request_id(message, start_time) == << message.message_id, start_time >>
request_of(d) == request_id(delivery[d].message, delivery[d].start_time)

\* faulty variant: the message is handed to publish twice
outbox_after_send_twice(message) ==
    IF running THEN Append(Append(outbox, message), message) ELSE outbox

\* send_message inside the try/except of _send_response / _send_error_response:
\* the message reaches message_bus.publish only while the agent is running,
\* otherwise AgentCommunicationError is raised, logged and swallowed
outbox_after_send(message) ==
    IF running THEN Append(outbox, message) ELSE outbox

\* variants of the retry condition that the retry properties must tell apart:
\* one attempt too many, and a retry of whatever AgentError was raised
should_retry_once_more(exc, retry_count) ==
    exc.agent_error /\ exc.recoverable /\ retry_count <= max_retries
should_retry_any_agent_error(exc, retry_count) ==
    exc.agent_error /\ retry_count < max_retries

\* lines 243-244: retry only a recoverable AgentError, while retry_count < max_retries
should_retry(exc, retry_count) ==
    exc.agent_error /\ exc.recoverable /\ retry_count < max_retries

\* lines 194-199: an exception that is no AgentError is wrapped as a
\* non-recoverable AgentProcessingError
classified(exc) ==
    IF exc.agent_error THEN exc
    ELSE [agent_error |-> TRUE, recoverable |-> FALSE, error_code |-> "AGENT_PROC_ERROR"]

\* faulty variant: a recoverable terminal error is counted in neither of the two
\* split counters
error_stats_after_unsplit(error) ==
    [total_errors |-> error_stats.total_errors + 1,
     recoverable_errors |-> error_stats.recoverable_errors,
     critical_errors |-> error_stats.critical_errors
                                + (IF error.recoverable THEN 0 ELSE 1),
     last_error |-> error.error_code,
     error_types |-> DictSet(error_stats.error_types, error.error_code,
                             (IF error.error_code \in DOMAIN error_stats.error_types
                              THEN error_stats.error_types[error.error_code] ELSE 0) + 1)]

\* _handle_agent_error: the counters after the terminal error `error`
error_stats_after(error) ==
    [total_errors |-> error_stats.total_errors + 1,
     recoverable_errors |-> error_stats.recoverable_errors
                                + (IF error.recoverable THEN 1 ELSE 0),
     critical_errors |-> error_stats.critical_errors
                                + (IF error.recoverable THEN 0 ELSE 1),
     last_error |-> error.error_code,
     error_types |-> DictSet(error_stats.error_types, error.error_code,
                             (IF error.error_code \in DOMAIN error_stats.error_types
                              THEN error_stats.error_types[error.error_code] ELSE 0) + 1)]

\* reset_error_stats()
reset_error_stats ==
    /\ error_stats' = [total_errors |-> 0, recoverable_errors |-> 0, critical_errors |-> 0,
                       last_error |-> "None", error_types |-> [c \in {} |-> 0]]
    /\ UNCHANGED << bus_vars, running, message_handlers,
                    processing_requests, performance_stats, delivery,
                    outbox, n_deliveries, peer >>

in_progress(d) == delivery[d].pc \in {"in_handler", "sleeping"}

\* faulty variant: every action is taken to have a handler
has_handler_always(message) == TRUE

\* _process_message line 215: message.action in self.message_handlers
has_handler(message) == message.action \in message_handlers

\* _handle_message up to its first suspension: the in-flight guard, then
\* _execute_with_retry(_process_message, message, 0).  The `return` of the guard
\* runs the finally clause (line 203) like every other exit.
deliver(d, message) ==
    /\ n_deliveries < MaxDeliveries
    /\ ~in_progress(d)
    /\ self_agent_id \in DOMAIN subscribers /\ ListHas(subscribers[self_agent_id], handle_message_cb)
    /\ n_deliveries' = n_deliveries + 1
    /\ IF request_id(message, now) \in processing_requests
       THEN /\ delivery' = [delivery EXCEPT ![d] =
                   [IdleDelivery EXCEPT !.pc = "duplicate", !.message = message,
                                        !.start_time = now]]
            /\ processing_requests' = processing_requests \ {request_id(message, now)}
            /\ UNCHANGED << performance_stats, outbox >>
       ELSE IF has_handler(message)
       THEN /\ delivery' = [delivery EXCEPT ![d] =
                   [IdleDelivery EXCEPT !.pc = "in_handler", !.message = message,
                                        !.start_time = now, !.calls = 1]]
            /\ processing_requests' = processing_requests \cup {request_id(message, now)}
            /\ UNCHANGED << performance_stats, outbox >>
       ELSE \* no handler for the action: the error result is sent as a response
            /\ delivery' = [delivery EXCEPT ![d] =
                   [IdleDelivery EXCEPT !.pc = "done", !.message = message,
                                        !.start_time = now,
                                        !.result = "unknown_action"]]
            /\ outbox' = outbox_after_send(response_message(message))
            /\ performance_stats' = [performance_stats EXCEPT !.messages_processed = @ + 1]
            /\ processing_requests' = processing_requests \ {request_id(message, now)}
    /\ UNCHANGED << bus_vars, running, message_handlers, error_stats, peer >>

\* the handler returns a result (has_result) or nothing: lines 184-192, finally
handler_returns(d, has_result) ==
    /\ delivery[d].pc = "in_handler"
    /\ outbox' = IF has_result
                 THEN outbox_after_send(response_message(delivery[d].message))
                 ELSE outbox
    /\ performance_stats' = [performance_stats EXCEPT !.messages_processed = @ + 1]
    /\ processing_requests' = processing_requests \ {request_of(d)}
    /\ delivery' = [delivery EXCEPT ![d].pc = "done",
                                    ![d].result = IF has_result THEN "value" ELSE "empty"]
    /\ UNCHANGED << bus_vars, running, message_handlers, error_stats,
                    n_deliveries, peer >>

\* the handler raises exc: either asyncio.sleep(retry_delay * (retry_count + 1)) is
\* awaited, or the error is terminal: _handle_agent_error, finally
handler_raises(d, exc) ==
    /\ delivery[d].pc = "in_handler"
    /\ IF should_retry(exc, delivery[d].retry_count)
       THEN /\ delivery' = [delivery EXCEPT ![d].pc = "sleeping", ![d].error = exc]
            /\ UNCHANGED << error_stats, performance_stats, outbox, processing_requests >>
       ELSE /\ delivery' = [delivery EXCEPT ![d].pc = "failed", ![d].error = classified(exc)]
            /\ error_stats' = error_stats_after(classified(exc))
            /\ performance_stats' = [performance_stats EXCEPT !.messages_failed = @ + 1]
            /\ outbox' = outbox_after_send(error_message(delivery[d].message, classified(exc)))
            /\ processing_requests' = processing_requests \ {request_of(d)}
    /\ UNCHANGED << bus_vars, running, message_handlers, n_deliveries, peer >>

\* the backoff sleep ends: _execute_with_retry(handler, message, retry_count + 1)
retry(d) ==
    /\ delivery[d].pc = "sleeping"
    /\ delivery' = [delivery EXCEPT ![d].pc = "in_handler",
                                    ![d].retry_count = @ + 1,
                                    ![d].calls = @ + 1]
    /\ UNCHANGED << bus_vars, running, message_handlers,
                    processing_requests, error_stats, performance_stats,
                    outbox, n_deliveries, peer >>

\* faulty variant: the cancellation skips the finally clause
cancel_delivery_keeps_key(d) ==
    /\ in_progress(d)
    /\ delivery' = [delivery EXCEPT ![d].pc = "cancelled"]
    /\ UNCHANGED << bus_vars, running, message_handlers,
                    processing_requests, error_stats, performance_stats,
                    outbox, n_deliveries, peer >>

\* the task running _handle_message is cancelled (the bus is stopped) while it
\* awaits the handler or the backoff sleep: only the finally clause runs
cancel_delivery(d) ==
    /\ in_progress(d)
    /\ processing_requests' = processing_requests \ {request_of(d)}
    /\ delivery' = [delivery EXCEPT ![d].pc = "cancelled"]
    /\ UNCHANGED << bus_vars, running, message_handlers, error_stats,
                    performance_stats, outbox, n_deliveries, peer >>


\* the second runtime after BaseAgent.__init__
IdlePeer == [running |-> FALSE, pc |-> "idle", message |-> NoMsg]
PeerInit == peer = IdlePeer

Init == BusInit /\ AgentInit /\ PeerInit

Next ==
    \/ \E p \in Subscriptions : subscribe(p[1], p[2])
    \/ \E p \in Subscriptions : unsubscribe(p[1], p[2])
    \/ \E m \in Msgs : publish(m)
    \/ start
    \/ stop_call
    \/ stop_return
    \/ dispatch_init
    \/ dispatch_timeout
    \/ dispatch_drop
    \/ dispatch_fan_out
    \/ \E i \in TaskIds : task_start(i)
    \/ \E i \in TaskIds : task_acquire(i)
    \/ \E i \in TaskIds : handler_return(i)
    \/ \E i \in TaskIds : handler_raise(i)
    \/ gather_done
    \/ dispatch_cancelled
    \/ Tick

Spec == Init /\ [][Next]_vars

AgentNext ==
    \/ \E a \in HandledActions : register_handler(a)
    \/ agent_start
    \/ agent_stop
    \/ \E d \in Slots, m \in AgentMsgs : deliver(d, m)
    \/ \E d \in Slots, r \in BOOLEAN : handler_returns(d, r)
    \/ \E d \in Slots, e \in Raises : handler_raises(d, e)
    \/ \E d \in Slots : retry(d)
    \/ \E d \in Slots : cancel_delivery(d)
    \/ reset_error_stats
    \/ Tick

AgentSpec == Init /\ [][AgentNext]_vars

(***************************************************************************)
(* The agent wired to the bus.  The bus task of a fan-out awaits the       *)
(* agent's _handle_message as its handler; what the agent sends goes       *)
(* through publish.  A call and its return are steps of their own: the bus *)
(* enters the handler, the agent runs, the bus gets the control back.      *)
(***************************************************************************)
ended(d) == delivery[d].pc \in {"done", "failed", "duplicate"}

\* the messages of the outbox that publish() has not been called with yet
unsent == { j \in 1..Len(outbox) : recorded_at[generate_message_key(outbox[j])] = -1 }

\* a client publishes a request; one publish is left for the agent's answer
client_publish(message) ==
    /\ 2 * (stats.total_messages + 1) <= MaxPublish
    /\ publish(message)

\* _handle_message_safely line 148: await handler(message), the handler being the
\* agent's callback
callback_entered(i) ==
    /\ dispatch_task = "running" /\ dpc = "gather" /\ ~cancel_requested
    /\ i \in TaskIds
    /\ tasks[i].st = "in_handler" /\ tasks[i].handler = handle_message_cb
    /\ delivery[i].pc = "idle"
    /\ deliver(i, cur_msg)

\* the registered handler echoes the payload back as its result
echo(d) == handler_returns(d, delivery[d].message.payload # << >>)

\* send_message line 149: await self.message_bus.publish(message)
send_to_bus ==
    /\ unsent # {}
    /\ publish(outbox[CHOOSE j \in unsent : \A k \in unsent : j <= k])

\* _handle_message has returned to line 148 of _handle_message_safely
callback_returned(i) ==
    /\ i \in TaskIds
    /\ tasks[i].handler = handle_message_cb
    /\ ended(i) /\ unsent = {}
    /\ handler_return(i)

\* the frame of the finished call of _handle_message is gone
callback_frame_left(d) ==
    /\ ended(d)
    /\ d \in TaskIds => tasks[d].st # "in_handler"
    /\ delivery' = [delivery EXCEPT ![d] = IdleDelivery]
    /\ UNCHANGED << bus_vars, running, message_handlers,
                    processing_requests, error_stats, performance_stats,
                    outbox, n_deliveries, peer >>

wired_gather_done ==
    /\ \A d \in Slots : delivery[d].pc = "idle"
    /\ gather_done

EchoNext ==
    \/ \E a \in HandledActions : register_handler(a)
    \/ agent_start
    \/ start
    \/ \E m \in RequestMsgs : client_publish(m)
    \/ dispatch_init
    \/ dispatch_drop
    \/ dispatch_fan_out
    \/ \E i \in TaskIds : task_start(i)
    \/ \E i \in TaskIds : task_acquire(i)
    \/ \E i \in Slots : callback_entered(i)
    \/ \E d \in Slots : echo(d)
    \/ send_to_bus
    \/ \E i \in Slots : callback_returned(i)
    \/ \E d \in Slots : callback_frame_left(d)
    \/ wired_gather_done

EchoSpec == Init /\ [][EchoNext]_vars

\* The event loop runs every task that is ready, and handlers terminate: each step
\* of the dispatch task, of a handler task and of a pending stop() is eventually
\* taken when it stays possible.  The callers of the bus are under no obligation.
Fairness ==
    /\ WF_vars(dispatch_init)
    /\ WF_vars(dispatch_drop \/ dispatch_fan_out)
    /\ WF_vars(\E i \in TaskIds : task_start(i))
    /\ WF_vars(\E i \in TaskIds : task_acquire(i))
    /\ WF_vars(\E i \in TaskIds : handler_return(i) \/ handler_raise(i))
    /\ WF_vars(gather_done)
    /\ WF_vars(dispatch_cancelled)
    /\ WF_vars(stop_return)

FairSpec == Spec /\ Fairness

(***************************************************************************)
(* The life of a message on a bus that is started and never stopped, with  *)
(* one subscriber; a key can be published again after its eviction.        *)
(***************************************************************************)
LifecycleMsgs == { m \in Msgs : m.to_agent = "A" }

lifecycle_publish(message) ==
    /\ stats.total_messages < MaxRepublish
    /\ publish_body(message)

LifecycleNext ==
    \/ subscribe("A", "h1")
    \/ start
    \/ \E m \in LifecycleMsgs : lifecycle_publish(m)
    \/ dispatch_init
    \/ dispatch_timeout
    \/ dispatch_drop
    \/ dispatch_fan_out
    \/ \E i \in TaskIds : task_start(i)
    \/ \E i \in TaskIds : handler_return(i)
    \/ \E i \in TaskIds : handler_raise(i)
    \/ gather_done
    \/ Tick

\* the loop and the tasks keep running, and every handler terminates
LifecycleFairness ==
    /\ WF_vars(dispatch_init)
    /\ WF_vars(dispatch_drop \/ dispatch_fan_out)
    /\ WF_vars(\E i \in TaskIds : task_start(i))
    /\ WF_vars(\E i \in TaskIds : handler_return(i) \/ handler_raise(i))
    /\ WF_vars(gather_done)

LifecycleSpec == Init /\ [][LifecycleNext]_vars /\ LifecycleFairness

(***************************************************************************)
(* Two runtimes on one bus: "B" sends one request to "A"; every message    *)
(* either runtime publishes goes through publish() and the dispatch loop.  *)
(***************************************************************************)
\* a call of publish(message), among the calls explored for one exchange
exchange_publish(message) ==
    /\ stats.total_messages <= MaxHops
    /\ publish_body(message)

\* BaseAgent.start() of the second runtime
peer_start ==
    /\ peer_agent_id \in DOMAIN subscribers => Len(subscribers[peer_agent_id]) < MaxHandlers
    /\ subscribers' = DictSet(subscribers, peer_agent_id,
                              (IF peer_agent_id \in DOMAIN subscribers
                               THEN subscribers[peer_agent_id] ELSE << >>)
                                  \o << peer_handle_message_cb >>)
    /\ peer' = [peer EXCEPT !.running = TRUE]
    /\ UNCHANGED << queue, dispatch_task, dpc, stop_pc, processed_messages,
                    processing_messages, message_timestamps, lock_owner,
                    lock_waiters, stats, now, last_cleanup, cur_msg, tasks,
                    publish_ret, invocations, handled, recorded_at,
                    stopped_since, running, message_handlers,
                    processing_requests, error_stats, performance_stats,
                    delivery, outbox, n_deliveries >>

\* the second runtime sends the request: send_message, lines 144-149
exchange_request ==
    /\ peer.running
    /\ stats.total_messages = 0
    /\ exchange_publish(ExchangeRequest)

\* the response of the second runtime that publish() has not been called with yet
peer_unsent ==
    /\ peer.pc = "responding"
    /\ recorded_at[generate_message_key(peer.message)] = -1

\* _process_message line 215 in the second runtime
peer_has_handler(message) == message.action \in peer_message_handlers

\* _handle_message of the second runtime, called by the bus (line 148 of
\* _handle_message_safely): no handler for the action, so _process_message returns the
\* error dict (lines 218-226), which is truthy (line 183), and _send_response builds
\* the response and hands it to send_message
peer_callback_entered(i) ==
    /\ dispatch_task = "running" /\ dpc = "gather" /\ ~cancel_requested
    /\ i \in TaskIds
    /\ tasks[i].st = "in_handler" /\ tasks[i].handler = peer_handle_message_cb
    /\ peer.pc = "idle"
    /\ ~peer_has_handler(cur_msg)
    /\ peer' = [peer EXCEPT !.pc = IF peer.running THEN "responding" ELSE "swallowed",
                            !.message = IF peer.running THEN peer_response_message(cur_msg)
                                        ELSE NoMsg]
    /\ UNCHANGED << bus_vars, running, message_handlers,
                    processing_requests, error_stats, performance_stats,
                    delivery, outbox, n_deliveries >>

\* send_message line 149 in the second runtime
peer_send_to_bus ==
    /\ peer_unsent
    /\ exchange_publish(peer.message)

\* send_message line 149 in the first runtime
exchange_send_to_bus ==
    /\ unsent # {}
    /\ exchange_publish(outbox[CHOOSE j \in unsent : \A k \in unsent : j <= k])

\* _handle_message of the second runtime has returned to _handle_message_safely
peer_callback_returned(i) ==
    /\ i \in TaskIds
    /\ tasks[i].handler = peer_handle_message_cb
    /\ peer.pc # "idle" /\ ~peer_unsent
    /\ handler_return(i)

\* the frame of the finished call of _handle_message of the second runtime is gone
peer_frame_left ==
    /\ peer.pc # "idle" /\ ~peer_unsent
    /\ \A i \in TaskIds :
          tasks[i].handler = peer_handle_message_cb => tasks[i].st # "in_handler"
    /\ peer' = [peer EXCEPT !.pc = "idle", !.message = NoMsg]
    /\ UNCHANGED << bus_vars, running, message_handlers,
                    processing_requests, error_stats, performance_stats,
                    delivery, outbox, n_deliveries >>

\* the registered handler of "ping" fails with an error that is not retried
ping_fails(d) ==
    \E exc \in Raises : ~should_retry(exc, delivery[d].retry_count) /\ handler_raises(d, exc)

exchange_gather_done ==
    /\ peer.pc = "idle"
    /\ wired_gather_done

ExchangeNext ==
    \/ \E a \in HandledActions : register_handler(a)
    \/ agent_start
    \/ peer_start
    \/ start
    \/ exchange_request
    \/ dispatch_init
    \/ dispatch_drop
    \/ dispatch_fan_out
    \/ \E i \in TaskIds : task_start(i)
    \/ \E i \in TaskIds : task_acquire(i)
    \/ \E i \in Slots : callback_entered(i)
    \/ \E d \in Slots : echo(d)
    \/ \E d \in Slots : ping_fails(d)
    \/ exchange_send_to_bus
    \/ \E i \in Slots : callback_returned(i)
    \/ \E d \in Slots : callback_frame_left(d)
    \/ \E i \in TaskIds : peer_callback_entered(i)
    \/ peer_send_to_bus
    \/ \E i \in TaskIds : peer_callback_returned(i)
    \/ peer_frame_left
    \/ exchange_gather_done

\* the loop, the tasks and both runtimes keep running; every handler terminates
ExchangeFairness ==
    /\ WF_vars(dispatch_init)
    /\ WF_vars(dispatch_drop \/ dispatch_fan_out)
    /\ WF_vars(\E i \in TaskIds : task_start(i) \/ task_acquire(i))
    /\ WF_vars(\E i \in Slots : callback_entered(i))
    /\ WF_vars(\E d \in Slots : echo(d) \/ ping_fails(d))
    /\ WF_vars(exchange_send_to_bus)
    /\ WF_vars(\E i \in Slots : callback_returned(i))
    /\ WF_vars(\E d \in Slots : callback_frame_left(d))
    /\ WF_vars(\E i \in TaskIds : peer_callback_entered(i))
    /\ WF_vars(peer_send_to_bus)
    /\ WF_vars(\E i \in TaskIds : peer_callback_returned(i))
    /\ WF_vars(peer_frame_left)
    /\ WF_vars(exchange_gather_done)

ExchangeSpec == Init /\ [][ExchangeNext]_vars /\ ExchangeFairness

(***************************************************************************)
(* Properties                                                              *)
(***************************************************************************)
\* the step is a handler invocation for key k: some task enters its handler
invoked_step(k) ==
    /\ cur_msg # NoMsg
    /\ generate_message_key(cur_msg) = k
    /\ \E i \in TaskIds :
          /\ i <= Len(tasks')
          /\ tasks[i].st # "in_handler"
          /\ tasks'[i].st = "in_handler"

\* C1: publish(m) returns false, counts one duplicate and leaves the queue alone
\* when the key of m is in the processing or the processed set; otherwise it puts
\* the key in the processing set, appends m to the queue and returns true.
C1_PublishContract ==
    [][\A m \in Msgs : publish(m) =>
          IF generate_message_key(m) \in processing_messages \cup processed_messages
          THEN /\ publish_ret' = "False"
               /\ stats'.duplicate_messages = stats.duplicate_messages + 1
               /\ queue' = queue
               /\ processing_messages' = processing_messages
          ELSE /\ publish_ret' = "True"
               /\ stats'.duplicate_messages = stats.duplicate_messages
               /\ generate_message_key(m) \in processing_messages'
               /\ queue' = Append(queue, m)]_vars

\* C1 witness: a second message with a recorded key was rejected while the first
\* one is still queued
C1_Witness ==
    /\ publish_ret = "False"
    /\ stats.total_messages = 2 /\ stats.duplicate_messages = 1
    /\ Len(queue) = 1

\* C2 (as stated): over the whole run, handlers are invoked for at most one
\* message instance per dedup key.
C2_AtMostOncePerKey == \A k \in Keys : invocations[k] <= 1

\* C2 (amended): between two resets of a key's dedup record (TTL eviction by the
\* cleanup, or stop()), handlers are invoked for at most one instance of the key.
C2_AtMostOncePerRecord == \A k \in Keys : handled[k] <= 1

\* C2 witness: a key was handled once, its second handler task was skipped and a
\* re-publication was rejected
C2_Witness ==
    /\ cur_msg # NoMsg
    /\ handled[generate_message_key(cur_msg)] = 1
    /\ \E i \in TaskIds : tasks[i].st = "skipped"
    /\ stats.duplicate_messages = 1

\* C3: at most one handler invocation is in progress per destination agent.
C3_OneInFlightPerAgent ==
    \A a \in Agents :
        Cardinality({ i \in TaskIds : cur_msg.to_agent = a /\ tasks[i].st = "in_handler" }) <= 1

\* C3 witness: one task runs its handler while another task of the same agent
\* waits for the lock
C3_Witness ==
    \E i, j \in TaskIds : tasks[i].st = "in_handler" /\ tasks[j].st = "wait_lock"

\* C4: every handler registered under the destination is invoked for a message
\* dispatched to it, that is, no task of a fan-out ends without calling its handler.
C4_AllHandlersInvoked == \A i \in TaskIds : tasks[i].st # "skipped"

\* the message has no subscriber: its destination is not in the registry, or the
\* handler list registered under it is empty
zero_subscribers(message) ==
    \/ message.to_agent \notin DOMAIN subscribers
    \/ subscribers[message.to_agent] = << >>

\* C7 (as stated): a publish with a key recorded at time T is accepted only when
\* the TTL has elapsed since T.
C7_NoReuseBeforeTTL ==
    [][\A m \in Msgs :
          (publish(m) /\ publish_ret' = "True" /\ recorded_at[generate_message_key(m)] # -1)
              => now - recorded_at[generate_message_key(m)] >= message_ttl]_vars

\* C7 (amended): a publish with a key recorded at time T is accepted only when the
\* TTL has elapsed since T, unless stop() has cleared the dedup state since T.
C7_NoReuseBeforeTTLUnlessStopped ==
    [][\A m \in Msgs :
          (publish(m) /\ publish_ret' = "True" /\ recorded_at[generate_message_key(m)] # -1)
              => \/ now - recorded_at[generate_message_key(m)] >= message_ttl
                 \/ generate_message_key(m) \in stopped_since]_vars

\* C7 witness: a key recorded earlier has been evicted by the cleanup (not cleared by
\* stop()) once the TTL had elapsed, and a publish of it is accepted again
C7_Witness ==
    \E m \in Msgs :
        /\ recorded_at[generate_message_key(m)] # -1
        /\ generate_message_key(m) \notin stopped_since
        /\ now - recorded_at[generate_message_key(m)] >= message_ttl
        /\ ~is_duplicate_message(m)
        /\ stats.total_messages < MaxPublish

C10_RaiseIsolated ==
    /\ [][\A i \in TaskIds :
             handler_raise(i)
                 => /\ dispatch_task' = "running" /\ dpc' = "gather"
                    /\ \A j \in TaskIds \ {i} : tasks'[j] = tasks[j]]_vars
    /\ (\E i \in TaskIds : tasks[i].st = "raised")
           ~> ((dispatch_task = "running" /\ dpc = "get") \/ stop_pc # "idle")
    /\ (stats.failed_messages > 0 /\ dispatch_task = "running" /\ queue # << >>)
           ~> (queue = << >> \/ stop_pc # "idle")

\* C10 witness: a handler has raised, the loop went on and has handed a later message
\* to a handler
C10_Witness ==
    /\ stats.failed_messages = 1
    /\ dispatch_task = "running" /\ dpc = "gather"
    /\ \E i \in TaskIds : tasks[i].st = "in_handler"

(***************************************************************************)
(* The agent runtime: retries and terminal failures                         *)
(***************************************************************************)
\* the step in which the handler call of delivery d ends in an exception
raise_step(d) ==
    /\ delivery[d].pc = "in_handler"
    /\ delivery'[d].pc \in {"sleeping", "failed"}
\* the step in which delivery d ends in a terminal failure
terminal_failure_step(d) ==
    /\ delivery[d].pc = "in_handler"
    /\ delivery'[d].pc = "failed"
error_counters_updated(d) ==
    /\ error_stats'.total_errors = error_stats.total_errors + 1
    /\ error_stats'.last_error = delivery'[d].error.error_code
    /\ delivery'[d].error.error_code \in DOMAIN error_stats'.error_types
    /\ error_stats'.error_types[delivery'[d].error.error_code] =
           (IF delivery'[d].error.error_code \in DOMAIN error_stats.error_types
            THEN error_stats.error_types[delivery'[d].error.error_code] ELSE 0) + 1
    /\ performance_stats'.messages_failed = performance_stats.messages_failed + 1
    /\ performance_stats'.messages_processed = performance_stats.messages_processed
is_error_message_for(m, original) ==
    /\ m.action = <<"error">>
    /\ m.to_agent = original.from_agent
    /\ m.from_agent = self_agent_id
    /\ m.conversation_id = original.conversation_id
    /\ m.message_id = <<"error_">> \o original.message_id
error_message_sent(d) ==
    /\ Len(outbox') = Len(outbox) + 1
    /\ is_error_message_for(outbox'[Len(outbox')], delivery[d].message)
retries_bounded ==
    \A d \in Slots :
        /\ delivery[d].calls <= max_retries + 1
        /\ delivery[d].pc = "sleeping" => delivery[d].calls <= max_retries

\* C5 (as stated): a handler that raises a recoverable agent error on every attempt
\* is invoked exactly max_retries + 1 times for one delivered message and never
\* more; the failure is then terminal: the error counters are updated (one more
\* total, recoverable and failed) and an error message goes to the sender.
C5_RetriesThenTerminalAndSent ==
    /\ [] retries_bounded
    /\ [][\A d \in Slots :
            (terminal_failure_step(d) /\ delivery'[d].error.recoverable)
                => /\ delivery[d].calls = max_retries + 1
                   /\ delivery'[d].calls = max_retries + 1
                   /\ error_counters_updated(d)
                   /\ error_stats'.recoverable_errors = error_stats.recoverable_errors + 1
                   /\ error_stats'.critical_errors = error_stats.critical_errors
                   /\ error_message_sent(d)]_vars

\* C5 (amended): as above, but the error message goes to the sender only if the
\* agent is still running when the retries are exhausted; once stop() has set
\* running to False the send fails, is logged, and nothing is published.
C5_RetriesThenTerminal ==
    /\ [] retries_bounded
    /\ [][\A d \in Slots :
            (terminal_failure_step(d) /\ delivery'[d].error.recoverable)
                => /\ delivery[d].calls = max_retries + 1
                   /\ delivery'[d].calls = max_retries + 1
                   /\ error_counters_updated(d)
                   /\ error_stats'.recoverable_errors = error_stats.recoverable_errors + 1
                   /\ error_stats'.critical_errors = error_stats.critical_errors
                   /\ (running => error_message_sent(d))
                   /\ (~running => outbox' = outbox)]_vars

C5_Witness ==
    \E d \in Slots :
        /\ delivery[d].pc = "failed"
        /\ delivery[d].error.recoverable
        /\ delivery[d].calls = max_retries + 1
        /\ delivery[d].retry_count = max_retries
        /\ error_stats.recoverable_errors = 1
        /\ performance_stats.messages_failed = 1
        /\ running
        /\ outbox # << >>
        /\ is_error_message_for(outbox[Len(outbox)], delivery[d].message)

stop_returns == stop_return \/ (stop_call /\ dispatch_task # "running")
\* stop() has been called and start() has not been called since
stopped == stop_pc = "await" \/ dispatch_task = "done"

\* C15: when stop() returns, the processing set, the processed set and the
\* timestamp map are empty and the queue is discarded (queue depth 0, no fan-out
\* left), so that every message is accepted by publish again; and from the call of
\* stop() to its return no handler is invoked, so what was queued is not delivered.
C15_StopClearsEverything ==
    [][/\ stop_returns
            => /\ processing_messages' = {}
               /\ processed_messages' = {}
               /\ DOMAIN message_timestamps' = {}
               /\ queue' = << >>
               /\ get_stats'.queue_size = 0
               /\ get_stats'.processing_messages = 0
               /\ get_stats'.processed_messages_cache = 0
               /\ tasks' = << >> /\ cur_msg' = NoMsg
               /\ \A m \in Msgs : ~(is_duplicate_message(m))'
       /\ stop_pc # "idle" => invocations' = invocations]_vars

\* C15 witness: stop() has returned with a message published and never handed to a
\* handler; the dedup state is empty and the message would be accepted again
C15_Witness ==
    /\ stop_pc = "idle" /\ dispatch_task = "done"
    /\ queue = << >>
    /\ processing_messages = {} /\ processed_messages = {}
    /\ DOMAIN message_timestamps = {}
    /\ \E m \in Msgs :
          /\ generate_message_key(m) \in stopped_since
          /\ invocations[generate_message_key(m)] = 0
          /\ m.to_agent \in DOMAIN subscribers
          /\ subscribers[m.to_agent] # << >>
          /\ ~is_duplicate_message(m)

C17_NoInvocationAfterUnsubscribe ==
    [][\A i \in 1..Len(tasks) :
          (/\ i <= Len(tasks')
           /\ tasks[i].st # "in_handler"
           /\ tasks'[i].st = "in_handler")
              => /\ cur_msg.to_agent \in DOMAIN subscribers
                 /\ ListHas(subscribers[cur_msg.to_agent], tasks[i].handler)]_vars

\* C20: the subscribed-destinations figure of get_stats() is the number of agent
\* ids that have at least one registered handler.
C20_ActiveSubscribersFigure ==
    get_stats.active_subscribers
        = Cardinality({ a \in DOMAIN subscribers : subscribers[a] # << >> })

(***************************************************************************)
(* The bus: what the dispatch loop does while a handler is in progress     *)
(***************************************************************************)
\* C21: the dispatch loop does not wait for the handler of one agent before it
\* dequeues a message addressed to another agent: while a handler is in progress
\* and the message at the head of the queue is addressed to a different agent, the
\* running loop can take that message from the queue.
C21_LoopDoesNotWaitForOtherAgent ==
    (/\ dispatch_task = "running" /\ stop_pc = "idle"
     /\ cur_msg # NoMsg
     /\ \E i \in TaskIds : tasks[i].st = "in_handler"
     /\ queue # << >>
     /\ Head(queue).to_agent # cur_msg.to_agent)
        => ENABLED (dispatch_drop \/ dispatch_fan_out)

\* C24: messages are handed to the handlers in the order in which publish accepted
\* them, one at a time, whatever their priority: the queue only grows at its tail
\* (publish), shrinks at its head (the loop) or is discarded (stop); the message the
\* loop hands to the handlers is the head of the queue, taken when no handler of the
\* previous message is left; a handler is entered only for that message and only
\* while no other handler is in progress.
C24_HandedOverInAcceptanceOrder ==
    [][/\ \/ queue' = queue
          \/ \E m \in Msgs : publish(m) /\ queue' = Append(queue, m)
          \/ queue # << >> /\ queue' = Tail(queue)
          \/ queue' = << >>
       /\ (cur_msg' # cur_msg /\ cur_msg' # NoMsg)
             => /\ queue # << >>
                /\ cur_msg' = Head(queue)
                /\ queue' = Tail(queue)
                /\ tasks = << >>
       /\ \A i \in 1..Len(tasks') :
             (i <= Len(tasks) /\ tasks[i].st # "in_handler" /\ tasks'[i].st = "in_handler")
                 => /\ cur_msg' = cur_msg
                    /\ \A j \in 1..Len(tasks) : tasks[j].st # "in_handler"]_vars

\* C24 witness: a NORMAL message accepted first is in its handler while the URGENT
\* message accepted after it for the same destination waits in the queue
C24_Witness ==
    /\ cur_msg # NoMsg /\ cur_msg.priority = "NORMAL"
    /\ \E i \in TaskIds : tasks[i].st = "in_handler"
    /\ queue # << >>
    /\ Head(queue).priority = "URGENT"
    /\ Head(queue).to_agent = cur_msg.to_agent

(***************************************************************************)
(* Two runtimes: the exchange started by one request                       *)
(***************************************************************************)
\* nothing is queued, being dispatched, being handled or waiting to be published
ExchangeQuiescent ==
    /\ queue = << >>
    /\ cur_msg = NoMsg /\ tasks = << >>
    /\ unsent = {} /\ ~peer_unsent
    /\ peer.pc = "idle"
    /\ \A d \in Slots : delivery[d].pc = "idle"

dequeue_step == dispatch_drop \/ dispatch_fan_out

\* what C23 says in both its readings: the queue grows only by an accepted publish,
\* a dequeue removes exactly the head, a queued message of the running loop is
\* eventually dequeued, and the first task of a fan-out enters its handler
accepted_is_dequeued_once ==
    /\ [][/\ Len(queue') > Len(queue)
                => \E m \in LifecycleMsgs :
                      /\ lifecycle_publish(m) /\ publish_ret' = "True"
                      /\ queue' = Append(queue, m)
          /\ dequeue_step => queue' = Tail(queue)
          /\ \A i \in TaskIds :
                (task_start(i) /\ i = 1)
                    => /\ tasks'[i].st = "in_handler"
                       /\ invocations'[generate_message_key(cur_msg)]
                              = invocations[generate_message_key(cur_msg)] + 1]_vars
    /\ \A n \in 1..MaxRepublish :
          (dispatch_task = "running" /\ Len(queue) = n) ~> (Len(queue) < n)
    /\ (dpc = "gather" /\ tasks # << >>) ~> (tasks # << >> /\ tasks[1].st # "created")

\* C23 (as stated): on a running bus whose handlers terminate, every accepted
\* message is eventually dequeued, exactly once, and if its destination has a
\* subscriber when it is dequeued, a handler is invoked for it.
C23_AcceptedIsDelivered ==
    /\ accepted_is_dequeued_once
    /\ [][(dequeue_step /\ ~zero_subscribers(Head(queue)))
             => /\ cur_msg' = Head(queue)
                /\ tasks' # << >>]_vars

\* C23 (amended): as above, except that a message whose key is in the processed set
\* when it is dequeued is dropped without any handler invocation, subscriber or not.
C23_AcceptedIsDeliveredUnlessProcessed ==
    /\ accepted_is_dequeued_once
    /\ [][/\ (/\ dequeue_step
              /\ ~zero_subscribers(Head(queue))
              /\ generate_message_key(Head(queue)) \notin processed_messages)
                => /\ cur_msg' = Head(queue)
                   /\ tasks' # << >>
          /\ (/\ dequeue_step
              /\ generate_message_key(Head(queue)) \in processed_messages)
                => /\ tasks' = << >>
                   /\ cur_msg' = NoMsg
                   /\ stats' = stats]_vars

\* C23 witness: the running loop is about to dequeue an accepted message whose
\* destination has a subscriber and whose key is already in the processed set
C23_Witness ==
    /\ dispatch_task = "running" /\ dpc = "get"
    /\ queue # << >>
    /\ ~zero_subscribers(Head(queue))
    /\ generate_message_key(Head(queue)) \in processed_messages
    /\ stats.duplicate_messages = 0

(***************************************************************************)
(* The bus: the dedup sets and the counters                                *)
(***************************************************************************)
\* C26: a message dropped for want of a subscriber is never marked processed: the
\* drop adds nothing to the processed set and leaves the key in the processing set
\* unless its TTL has elapsed; a key leaves the processing set only by being marked
\* processed after a handler ran, by TTL eviction or by stop(); and a publish whose
\* key is in the processing set is rejected, subscriber or not.
C26_DroppedKeyStaysInProcessing ==
    [][/\ (dispatch_drop /\ zero_subscribers(Head(queue)))
             => /\ processed_messages' \subseteq processed_messages
                /\ generate_message_key(Head(queue)) \in processing_messages
                      => \/ generate_message_key(Head(queue)) \in processing_messages'
                         \/ generate_message_key(Head(queue)) \in expired_keys(now)
       /\ \A k \in processing_messages \ processing_messages' :
             \/ k \in expired_keys(now)
             \/ stop_pc' = "idle" /\ processing_messages' = {}
             \/ /\ cur_msg # NoMsg /\ k = generate_message_key(cur_msg)
                /\ k \in processed_messages'
                /\ \E i \in TaskIds : tasks[i].st = "in_handler"
       /\ \A m \in Msgs :
             (publish(m) /\ generate_message_key(m) \in processing_messages)
                 => /\ publish_ret' = "False"
                    /\ queue' = queue]_vars

\* C26 witness: a message was dropped while its destination had no subscriber; a
\* handler is registered now, and the second publish of the message was rejected
C26_Witness ==
    /\ dispatch_task = "running" /\ dpc = "get"
    /\ queue = << >>
    /\ publish_ret = "False"
    /\ stats.total_messages = 2 /\ stats.duplicate_messages = 1
    /\ processed_messages = {}
    /\ \E m \in Msgs :
          /\ generate_message_key(m) \in processing_messages
          /\ invocations[generate_message_key(m)] = 0
          /\ ~zero_subscribers(m)

\* C28: the processing set and the processed set are disjoint, and every key in
\* either has an entry in the timestamp map.
C28_DedupSetsConsistent ==
    /\ processing_messages \cap processed_messages = {}
    /\ (processing_messages \cup processed_messages) \subseteq DOMAIN message_timestamps

\* C28 witness: one key is being processed while another has been processed
C28_Witness ==
    /\ processing_messages # {}
    /\ processed_messages # {}
    /\ \E i \in TaskIds : tasks[i].st = "in_handler"

\* C29: processed_messages + failed_messages <= total_messages - duplicate_messages
\* (reset_stats() is not among the operations explored).
C29_CountersBounded ==
    get_stats.processed_messages + get_stats.failed_messages
        <= get_stats.total_messages - get_stats.duplicate_messages

\* C29 witness: a message fanned out to two handlers has been counted once, the
\* other handler having been skipped, and every accepted message is accounted for
C29_Witness ==
    /\ Len(tasks) = 2
    /\ \A i \in TaskIds : finished(i)
    /\ stats.processed_messages + stats.failed_messages
          = stats.total_messages - stats.duplicate_messages
    /\ stats.failed_messages = 1

(***************************************************************************)
(* The agent runtime: what a delivery publishes, the in-flight set         *)
(***************************************************************************)
is_response_for(m, original) ==
    /\ m.action = original.action \o <<"_response">>
    /\ m.to_agent = original.from_agent
    /\ m.from_agent = self_agent_id
\* the step in which the handler call of delivery d returns
handler_done_step(d) ==
    /\ delivery[d].pc = "in_handler"
    /\ delivery'[d].pc = "done"
\* the step in which message is delivered in slot d and finds no handler
unknown_action_step(d, message) ==
    /\ deliver(d, message)
    /\ message.action \notin message_handlers
    /\ request_id(message, now) \notin processing_requests
finishes(d) ==
    \/ handler_done_step(d)
    \/ terminal_failure_step(d)
    \/ \E m \in AgentMsgs : unknown_action_step(d, m)
one_response_sent(original) ==
    /\ Len(outbox') = Len(outbox) + 1
    /\ SubSeq(outbox', 1, Len(outbox)) = outbox
    /\ is_response_for(outbox'[Len(outbox')], original)
    /\ outbox'[Len(outbox')].message_id = <<"resp_">> \o original.message_id
one_error_sent(d) ==
    /\ Len(outbox') = Len(outbox) + 1
    /\ SubSeq(outbox', 1, Len(outbox)) = outbox
    /\ is_error_message_for(outbox'[Len(outbox')], delivery[d].message)
    /\ outbox'[Len(outbox')].error_code = delivery'[d].error.error_code
    /\ outbox'[Len(outbox')].recoverable = delivery'[d].error.recoverable

C13_NoDoubleProcessing ==
    \A d1, d2 \in Slots :
        (d1 # d2 /\ in_progress(d1) /\ in_progress(d2))
            => delivery[d1].message.message_id # delivery[d2].message.message_id

\* C14 (as stated): every terminal failure is answered by an error message (action
\* "error", carrying the error code and the recoverability flag) published to the
\* sender of the failing message, and the call of _handle_message ends normally:
\* whatever the handler raises, the delivery is retried or ends as failed.
C14_FailureSurfaced ==
    [][\A d \in Slots :
          /\ terminal_failure_step(d)
                => /\ delivery'[d].error.agent_error
                   /\ one_error_sent(d)
          /\ \A e \in Raises :
                handler_raises(d, e) => delivery'[d].pc \in {"sleeping", "failed"}]_vars

\* C14 (amended): the error message is published if the agent is still running at
\* the terminal failure; otherwise the failure is only counted and logged.  In
\* both cases nothing is raised to the caller.
C14_FailureSurfacedIfRunning ==
    [][\A d \in Slots :
          /\ terminal_failure_step(d)
                => /\ delivery'[d].error.agent_error
                   /\ IF running THEN one_error_sent(d) ELSE outbox' = outbox
                   /\ error_stats'.total_errors = error_stats.total_errors + 1
          /\ \A e \in Raises :
                handler_raises(d, e) => delivery'[d].pc \in {"sleeping", "failed"}]_vars

\* C14 witness: an exception that is no agent error ended a delivery of a running
\* agent; the sender got an error message flagged non-recoverable
C14_Witness ==
    /\ running
    /\ outbox # << >>
    /\ \E d \in Slots :
          /\ delivery[d].pc = "failed" /\ delivery[d].calls = 1
          /\ is_error_message_for(outbox[Len(outbox)], delivery[d].message)
          /\ outbox[Len(outbox)].recoverable = FALSE
          /\ outbox[Len(outbox)].error_code = "AGENT_PROC_ERROR"
          /\ outbox[Len(outbox)].to_agent = "B"

C19_InFlightCleared ==
    /\ [](processing_requests \subseteq { request_of(d) : d \in { x \in Slots : in_progress(x) } })
    /\ [][\A d \in Slots :
            /\ (in_progress(d) /\ delivery'[d].pc \notin {"in_handler", "sleeping"})
                  => request_of(d) \notin processing_requests'
            /\ \A m \in AgentMsgs :
                  (deliver(d, m) /\ delivery'[d].pc \in {"done", "duplicate"})
                      => request_id(m, now) \notin processing_requests']_vars

\* C19 witness: one delivery was cancelled, one failed, none is in progress
C19_Witness ==
    /\ processing_requests = {}
    /\ \E d1, d2 \in Slots :
          /\ delivery[d1].pc = "cancelled"
          /\ delivery[d2].pc = "failed"

\* C25: the in-flight set contains the request key of every delivery that is being
\* processed; in particular a delivery rejected by the in-flight guard does not
\* remove the key of the delivery still in progress.
C25_InFlightHoldsEveryDelivery ==
    \A d \in Slots : in_progress(d) => request_of(d) \in processing_requests

\* the sum of the values of the histogram f
RECURSIVE SumOfCounts(_, _)
SumOfCounts(f, S) ==
    IF S = {} THEN 0
    ELSE LET c == CHOOSE x \in S : TRUE IN f[c] + SumOfCounts(f, S \ {c})

\* C27: every terminal error adds one to total_errors, one to recoverable_errors or
\* to critical_errors according to its recoverability flag (and nothing to the
\* other), and one to the histogram entry of its error code (and nothing to the
\* other entries); in every state, also after reset_error_stats(), total_errors =
\* recoverable_errors + critical_errors = the sum of the histogram.
C27_ErrorCountersConsistent ==
    /\ [](/\ error_stats.total_errors
               = error_stats.recoverable_errors + error_stats.critical_errors
          /\ error_stats.total_errors
               = SumOfCounts(error_stats.error_types, DOMAIN error_stats.error_types))
    /\ [][\A d \in Slots :
            terminal_failure_step(d)
               => /\ error_stats'.total_errors = error_stats.total_errors + 1
                  /\ IF delivery'[d].error.recoverable
                     THEN /\ error_stats'.recoverable_errors
                                = error_stats.recoverable_errors + 1
                          /\ error_stats'.critical_errors = error_stats.critical_errors
                     ELSE /\ error_stats'.critical_errors
                                = error_stats.critical_errors + 1
                          /\ error_stats'.recoverable_errors
                                = error_stats.recoverable_errors
                  /\ delivery'[d].error.error_code \in DOMAIN error_stats'.error_types
                  /\ \A c \in DOMAIN error_stats'.error_types :
                        error_stats'.error_types[c]
                           = (IF c \in DOMAIN error_stats.error_types
                              THEN error_stats.error_types[c] ELSE 0)
                             + (IF c = delivery'[d].error.error_code THEN 1 ELSE 0)]_vars

\* C27 witness: two deliveries ended in a terminal error, one of them recoverable,
\* with a reset of the statistics between the two
C27_Witness ==
    /\ delivery[1].pc = "failed" /\ delivery[2].pc = "failed"
    /\ delivery[1].error.recoverable # delivery[2].error.recoverable
    /\ error_stats.total_errors = 1
    /\ error_stats.recoverable_errors + error_stats.critical_errors = 1
    /\ Cardinality(DOMAIN error_stats.error_types) = 1

\* C30: whenever the agent is not running (stop() has returned, or start() was never
\* called), its callback is not registered on the bus under its agent id.
C30_StoppedAgentUnsubscribed ==
    ~running
        => \/ self_agent_id \notin DOMAIN subscribers
           \/ ~ListHas(subscribers[self_agent_id], handle_message_cb)

(***************************************************************************)
(* The echo scenario                                                       *)
(***************************************************************************)
\* C11: agent "A" is subscribed and its "ping" handler echoes the payload; once the
\* bus has counted the request with payload {} as processed (processed_messages = 1),
\* a message of type RESPONSE with action "ping_response" addressed to the sender
\* of the request has been published.
C11_PingAnswered ==
    \A d \in Slots :
        (/\ delivery[d].pc = "done" /\ delivery[d].calls = 1
         /\ delivery[d].message.payload = << >>
         /\ get_stats.processed_messages = 1)
            => \E j \in 1..Len(outbox) :
                  /\ j \notin unsent
                  /\ is_response_for(outbox[j], delivery[d].message)
                  /\ outbox[j].message_type = "response"

====
